---- MODULE Spec2Model ----
(***************************************************************************)
(* Model of src/src/app.py: the POST /api-endpoint handler                 *)
(* (handle_request) and the three functions it calls in sequence,          *)
(* generate_app_code, create_and_deploy_repo and report_to_evaluation,     *)
(* together with the remote repository the publisher writes to.            *)
(*                                                                         *)
(* A handler execution advances one remote call at a time (pc), so that    *)
(* two executions can interleave.  Spec serves the requests one after the  *)
(* other on a single thread, SpecRace on two threads at once.  Python      *)
(* values are tagged records [t, v]; text is a sequence of characters or   *)
(* of fixed template pieces.                                               *)
(***************************************************************************)
EXTENDS Integers, Sequences, FiniteSets, TLC

\* ------------------------------------------------------------------ bounds
MaxRequests == 2
MaxFaults == 1
RaceFaults == 0

\* The framework's worker threads; each serves one request at a time.
Threads == {1, 2}

\* ---------------------------------------------------------- Python values
None == [t |-> "none", v |-> <<>>]
Str(s) == [t |-> "str", v |-> s]
Num(n) == [t |-> "num", v |-> n]
List(s) == [t |-> "list", v |-> s]
Absent == [t |-> "absent", v |-> <<>>]

\* Python ==: values of different types are never equal.
PyEq(a, b) == a.t = b.t /\ a.v = b.v

\* dict.get(key, default): the default when the key is missing.
Get(d, k, default) == IF d[k].t = "absent" THEN default ELSE d[k]

\* ------------------------------------------------------------------- text
\* str.lower(), character by character.
LowerChar(c) ==
  CASE c = "F" -> "f"
    [] c = "C" -> "c"
    [] OTHER -> c
Lower(s) == [i \in 1..Len(s) |-> LowerChar(s[i])]

\* Python's "needle in haystack" on strings.
IsSubstring(needle, hay) ==
  \E i \in 0..(Len(hay) - Len(needle)) :
    \A j \in 1..Len(needle) : hay[i + j] = needle[j]

DigitChar(n) ==
  CASE n = 1 -> "1"
    [] n = 2 -> "2"
    [] OTHER -> "9"

\* str(x) inside an f-string.
Fmt(x) ==
  CASE x.t = "str" -> x.v
    [] x.t = "num" -> <<DigitChar(x.v)>>
    [] x.t = "none" -> <<"N", "o", "n", "e">>
    [] OTHER -> <<"?">>

RECURSIVE Flatten(_)
Flatten(ss) == IF ss = <<>> THEN <<>> ELSE Head(ss) \o Flatten(Tail(ss))

\* bool(x): None, the empty list, the empty string, the empty dict and 0 are
\* false.  A dict is a record of its possible keys, Absent marking a missing key.
Truthy(x) ==
  CASE x.t = "none" -> FALSE
    [] x.t = "list" -> x.v # <<>>
    [] x.t = "str" -> x.v # <<>>
    [] x.t = "num" -> x.v # 0
    [] x.t = "dict" -> \E k \in DOMAIN x.v : x.v[k].t # "absent"
    [] OTHER -> FALSE

\* ------------------------------------------------------ generate_app_code
Keywords ==
  { <<"b", "o", "o", "t", "s", "t", "r", "a", "p">>,
    <<"n", "a", "v", "b", "a", "r">>,
    <<"c", "a", "r", "d">>,
    <<"b", "u", "t", "t", "o", "n">>,
    <<"f", "o", "r", "m">> }

\* One attachment is a dict; att['name'] and att['url'][:100] raise when the
\* key is missing or the url cannot be sliced.
AttachmentRaises(att) ==
  \/ att.name.t = "absent"
  \/ att.url.t # "str"

UrlLimit == 100

Truncate(s) == SubSeq(s, 1, IF Len(s) < UrlLimit THEN Len(s) ELSE UrlLimit)

AttachmentLine(att) ==
  <<"- ">> \o Fmt(att.name) \o <<": ">> \o Truncate(att.url.v) \o <<"...\n">>

\* Lines 120-131: the two loops that run before the try block.
PromptRaises(attachments, checks) ==
  \/ /\ Truthy(attachments)
     /\ \/ attachments.t # "list"
        \/ \E i \in 1..Len(attachments.v) : AttachmentRaises(attachments.v[i])
  \/ /\ Truthy(checks)
     /\ checks.t # "list"

AttachmentsInfo(attachments) ==
  IF Truthy(attachments)
  THEN <<"\n\nAttachments:\n">>
       \o Flatten([i \in 1..Len(attachments.v) |-> AttachmentLine(attachments.v[i])])
  ELSE <<>>

ChecksInfo(checks) ==
  IF Truthy(checks)
  THEN <<"\n\nThe app must pass these checks:\n">>
       \o Flatten([i \in 1..Len(checks.v) |-> <<"- ">> \o checks.v[i] \o <<"\n">>])
  ELSE <<>>

Prompt(brief, attachments, checks) ==
  <<"Generate a complete single-page HTML application based on this brief:\n\n">>
  \o Fmt(brief) \o <<"\n">> \o AttachmentsInfo(attachments) \o <<"\n">>
  \o ChecksInfo(checks) \o <<"\n\nRequirements: ... Return ONLY the HTML code, no explanations.">>

\* A line of the completion starts with the fence delimiter (three backquotes,
\* written <fence> here).
Fence == "<fence>"
FenceHtml == "<fence>html"
StartsWithFence(line) == line \in {Fence, FenceHtml}

\* Lines 176-183: remove a leading and a trailing fence line.  The completion
\* text is the sequence of its lines (split on "\n", never empty).
StripFence(lines) ==
  IF StartsWithFence(lines[1])
  THEN LET l1 == Tail(lines)
       IN IF l1 # <<>> /\ StartsWithFence(l1[Len(l1)])
          THEN SubSeq(l1, 1, Len(l1) - 1)
          ELSE l1
  ELSE lines

\* ------------------------------------------- generate_template_based_code
\* brief.lower() needs a string; the join iterates checks.
TemplateRaises(brief, checks) ==
  \/ brief.t # "str"
  \/ checks.t # "list"

needs_bootstrap(brief) ==
  \E word \in Keywords : IsSubstring(word, Lower(brief.v))

BootstrapLink ==
  "<link href=\"https://cdn.jsdelivr.net/npm/bootstrap@5.3.0/dist/css/bootstrap.min.css\" rel=\"stylesheet\">"

CheckItems(checks) ==
  Flatten([i \in 1..Len(checks.v) |-> <<"<li>">> \o checks.v[i] \o <<"</li>">>])

Template(brief_text, bootstrap, checks) ==
  <<"<!DOCTYPE html><html lang=\"en\"><head>...<title>Auto-Generated App</title>">>
  \o (IF bootstrap THEN <<BootstrapLink>> ELSE <<>>)
  \o <<"</head><body><div class=\"">>
  \o (IF bootstrap THEN <<"container mt-5">> ELSE <<>>)
  \o <<"\"><h1>Auto-Generated Application</h1>...<strong>Brief:</strong> ">>
  \o brief_text
  \o <<"</div>...<h5 class=\"card-title\">Implementation Requirements</h5><ul>">>
  \o CheckItems(checks)
  \o <<"</ul></div></div></div></body></html>">>

generate_template_based_code_lowered(brief, checks) ==
  Template(Lower(brief.v), needs_bootstrap(brief), checks)

generate_template_based_code(brief, checks) ==
  Template(brief.v, needs_bootstrap(brief), checks)

\* The completion call either raises or answers with a message content, which
\* is text (a sequence of lines) or None.
Html1 == "<html>app one</html>"
Html2 == "<html>app two</html>"

Completions ==
  { [raised |-> TRUE, content |-> None],
    [raised |-> FALSE, content |-> None],
    [raised |-> FALSE, content |-> Str(<<Html1>>)],
    [raised |-> FALSE, content |-> Str(<<FenceHtml, Html2, Fence>>)] }

\* The try block fails when the call raises or when code.startswith is
\* applied to a content that is None.
CompletionFails(llm) == llm.raised \/ llm.content.t # "str"

\* generate_app_code as a whole, for one outcome llm of the completion call.
generate_app_code(brief, attachments, checks, llm) ==
  IF PromptRaises(attachments, checks)
  THEN [raised |-> TRUE, called |-> FALSE, code |-> <<>>]
  ELSE IF ~CompletionFails(llm)
  THEN [raised |-> FALSE, called |-> TRUE, code |-> StripFence(llm.content.v)]
  ELSE IF TemplateRaises(brief, checks)
  THEN [raised |-> TRUE, called |-> TRUE, code |-> <<>>]
  ELSE [raised |-> FALSE, called |-> TRUE,
        code |-> generate_template_based_code(brief, checks)]

\* -------------------------------------------------------- generate_readme
generate_readme(brief, round_num) ==
  <<"# Auto-Generated Application - Round ">> \o Fmt(round_num)
  \o <<"\n\n## Overview\n">> \o Fmt(brief)
  \o <<"\n\n## Setup ... ## Generated ...\n">>

LicenseText == <<"MIT License\n\nCopyright (c) 2025 ...">>

\* ------------------------------------------------------------------ state
VARIABLES
  SECRET_KEY,   \* os.getenv('SECRET_KEY'): a string, or None when unset
  env,          \* whether the completion API and the callback endpoint can fail
  threads,      \* the threads the framework serves requests on
  quota,        \* how many requests arrive at all
  served,       \* requests received so far
  pc,           \* per thread: the call its handler is about to make
  loc,          \* per thread: the handler's live local variables
  resp,         \* per thread: the HTTP response to its current request
  gh,           \* the hosting platform: repository name -> repository
  faultsLeft,   \* transient failures the hosting platform may still produce
  log           \* per thread: what the current request has done (history)

vars == <<SECRET_KEY, env, threads, quota, served, pc, loc, resp, gh, faultsLeft, log>>

GoodSecret == "s3cr3t"
BadSecret == "wrong"

RepoNames == {<<"d", "e", "m", "o", "1">>}
IndexPath == "index.html"
ReadmePath == "README.md"
LicensePath == "LICENSE"

\* ------------------------------------------------------- request payloads
Brief1 == <<"t", "o", "d", "o">>
Brief2 == <<"a", " ", "F", "o", "r", "m">>
Check1 == <<"o", "k">>

GoodAttachment == [name |-> Str(<<"a">>), url |-> Str(<<"d", "a", "t", "a", ":">>)]
BadAttachment == [name |-> Str(<<"a">>), url |-> Absent]

SecretVals == {Absent, Str(GoodSecret), Str(BadSecret)}
BriefVals == {Absent, Str(Brief1), Str(Brief2)}
ChecksVals == {Absent, None, Num(5), List(<<Check1>>)}
AttachmentVals == {Absent, List(<<GoodAttachment>>), List(<<BadAttachment>>)}
RoundVals == {Num(1)}

Dict(s, k, rd, b, c, a) ==
  [t |-> "dict",
   v |-> [secret |-> s, task |-> k, round |-> rd, brief |-> b, checks |-> c,
          attachments |-> a]]

EmptyDict == Dict(Absent, Absent, Absent, Absent, Absent, Absent)

\* checks and attachments: each varied alone, and both given.
ListVals ==
  { <<c, Absent>> : c \in ChecksVals } \cup { <<Absent, a>> : a \in AttachmentVals }
  \cup { <<List(<<Check1>>), List(<<GoodAttachment>>)>> }

\* Every secret with one fixed set of fields, and every combination of fields
\* with the two secrets a configuration can accept.
Dicts ==
  { Dict(s, Str(k), rd, Str(Brief1), Absent, Absent) :
      s \in SecretVals, k \in RepoNames, rd \in RoundVals }
  \cup
  { Dict(s, Str(k), rd, b, l[1], l[2]) :
      s \in {Absent, Str(GoodSecret)}, k \in RepoNames, rd \in RoundVals,
      b \in BriefVals, l \in ListVals }

\* The body of a POST: none at all, bytes that are not JSON, or a JSON value.
Bodies ==
  { [kind |-> "absent", data |-> None], [kind |-> "unparseable", data |-> None] }
  \cup { [kind |-> "json", data |-> d] :
           d \in Dicts \cup {EmptyDict, None, Num(0), List(<<Check1>>)} }

\* request.get_json(): the parsed value; werkzeug's BadRequest when the bytes
\* are not JSON; without a JSON body, None or an HTTP error, by Flask version.
get_json(body) ==
  CASE body.kind = "json" -> {[raised |-> FALSE, data |-> body.data]}
    [] body.kind = "unparseable" -> {[raised |-> TRUE, data |-> None]}
    [] OTHER -> {[raised |-> FALSE, data |-> None], [raised |-> TRUE, data |-> None]}

SecretAlwaysMatches(data) == TRUE

\* Line 56-57: secret_from_request != SECRET_KEY, negated.
SecretMatches(data) == PyEq(Get(data.v, "secret", None), SECRET_KEY)

\* Lines 46-61: the status the handler answers before any later step, 0 when
\* the request goes on.
Validate(got) ==
  IF got.raised THEN 500
  ELSE IF ~Truthy(got.data) THEN 400
  ELSE IF got.data.t # "dict" THEN 500
  ELSE IF ~SecretMatches(got.data) THEN 403
  ELSE 0

\* ----------------------------------------------------------- the platform
\* licenseWrites is history: how often a LICENSE write was accepted.
NoRepo ==
  [exists |-> FALSE, files |-> {}, pages |-> FALSE, commits |-> 0,
   licenseWrites |-> 0]

\* The blob sha of a file: determined by its content.
Sha(content) == <<"sha">> \o content
NoSha == <<>>

HasFile(repo, path) == \E f \in repo.files : f.path = path
FileAt(repo, path) == CHOOSE f \in repo.files : f.path = path

\* PUT contents without a sha: accepted only when the path is free.
CreateAccepted(repo, path) == repo.exists /\ ~HasFile(repo, path)
\* PUT contents with a sha: accepted only when it is the file's current sha.
UpdateAccepted(repo, path, sha) ==
  repo.exists /\ HasFile(repo, path) /\ Sha(FileAt(repo, path).content) = sha

\* by is history: the thread whose write the file's content comes from.
Written(repo, path, content, r) ==
  [repo EXCEPT !.files = {f \in repo.files : f.path # path}
                          \cup {[path |-> path, content |-> content, by |-> r]},
               !.commits = repo.commits + 1,
               !.licenseWrites = repo.licenseWrites
                                 + (IF path = LicensePath THEN 1 ELSE 0)]

\* A repository an earlier run of the service has published to.
Published ==
  [exists |-> TRUE,
   files |-> { [path |-> IndexPath, content |-> <<"<html>old</html>">>, by |-> 0],
               [path |-> ReadmePath,
                content |-> generate_readme(Str(<<"o", "l", "d">>), Num(1)), by |-> 0],
               [path |-> LicensePath, content |-> LicenseText, by |-> 0] },
   pages |-> TRUE, commits |-> 3, licenseWrites |-> 1]

FaultChoices == IF faultsLeft > 0 THEN {FALSE, TRUE} ELSE {FALSE}
Spend(fault) == faultsLeft' = IF fault THEN faultsLeft - 1 ELSE faultsLeft

\* ------------------------------------------------------------------- Init
NoResult == [repo_url |-> <<>>, commit_sha |-> 0, pages_url |-> <<>>]

\* seen is history: the file's true sha when get_contents was called.
InitLoc ==
  [task |-> None, round_num |-> None, brief |-> None, checks |-> None,
   attachments |-> None, app_code |-> <<>>, sha |-> NoSha, seen |-> NoSha,
   result |-> NoResult]

InitResp == [code |-> 0, reported |-> "none", error |-> "none"]

InitLog ==
  [kind |-> "none", secretField |-> "none", wellFormed |-> FALSE,
   gen |-> 0, llm |-> 0, llmFailed |-> FALSE, pub |-> 0, ghCalled |-> FALSE,
   genRaised |-> FALSE, ghRaised |-> FALSE, pubRaised |-> FALSE,
   createOnExisting |-> FALSE, stale |-> {},
   replaced |-> FALSE,
   wrote |-> {}, pubReturned |-> FALSE, posts |-> 0, slept |-> <<>>,
   firstOk |-> -1, postedEarly |-> FALSE]

InitCommon ==
  /\ SECRET_KEY \in {None, Str(GoodSecret)}
  /\ served = 0
  /\ pc = [r \in Threads |-> "idle"]
  /\ loc = [r \in Threads |-> InitLoc]
  /\ resp = [r \in Threads |-> InitResp]
  /\ gh \in {[n \in RepoNames |-> NoRepo], [n \in RepoNames |-> Published]}
  /\ log = [r \in Threads |-> InitLog]

\* One thread; the platform, the completion API and the endpoint may fail.
Init ==
  /\ InitCommon
  /\ threads = {1}
  /\ quota = MaxRequests
  /\ faultsLeft = MaxFaults
  /\ env = [completionFails |-> TRUE, endpointFails |-> TRUE]

\* Two threads and two requests; every remote service answers, so that a
\* refusal is a conflict between the two requests.
InitRace ==
  /\ InitCommon
  /\ threads = Threads
  /\ quota = Cardinality(Threads)
  /\ faultsLeft = RaceFaults
  /\ env = [completionFails |-> FALSE, endpointFails |-> FALSE]

\* --------------------------------------------------------- handle_request
\* Lines 105-113: the handler's except block, and any other return: the
\* response is sent and the handler's frame is gone.
Return(r, code, reported, error) ==
  /\ pc' = [pc EXCEPT ![r] = "done"]
  /\ resp' = [resp EXCEPT ![r] = [code |-> code, reported |-> reported, error |-> error]]
  /\ loc' = [loc EXCEPT ![r] = InitLoc]

\* A well-formed request, in the sense of the data model: brief a string,
\* checks and attachments sequences (or missing), each attachment with a name
\* and a string url.
WellFormed(d) ==
  /\ d.brief.t = "str"
  /\ d.checks.t \in {"absent", "list"}
  /\ d.attachments.t \in {"absent", "list"}
  /\ d.attachments.t = "list" =>
       \A i \in 1..Len(d.attachments.v) : ~AttachmentRaises(d.attachments.v[i])

\* What the payload carries as its secret: "none" when there is no such field
\* (or no payload), else whether it is a string equal to the configured one.
SecretField(body) ==
  IF body.kind # "json" \/ body.data.t # "dict" \/ body.data.v.secret.t = "absent"
  THEN "none"
  ELSE IF body.data.v.secret.t = "str" /\ SECRET_KEY.t = "str"
          /\ body.data.v.secret.v = SECRET_KEY.v
  THEN "equal"
  ELSE "differs"

\* Lines 46-74: read the body, validate the secret, extract the fields.
Receive(r) ==
  /\ r \in threads
  /\ pc[r] \in {"idle", "done"}
  /\ served < quota
  /\ \E body \in Bodies : \E got \in get_json(body) :
       LET status == Validate(got)
           d == got.data.v
       IN /\ log' = [log EXCEPT ![r] =
               [InitLog EXCEPT !.kind = body.kind,
                               !.secretField = SecretField(body),
                               !.wellFormed = status = 0 /\ WellFormed(d)]]
          /\ IF status # 0
             THEN /\ pc' = [pc EXCEPT ![r] = "done"]
                  /\ resp' = [resp EXCEPT ![r] =
                       [code |-> status, reported |-> "none",
                        error |-> CASE status = 400 -> "No JSON data received"
                                    [] status = 403 -> "Invalid secret"
                                    [] OTHER -> "exception"]]
                  /\ loc' = [loc EXCEPT ![r] = InitLoc]
             ELSE /\ pc' = [pc EXCEPT ![r] = "generate"]
                  /\ loc' = [loc EXCEPT ![r] =
                       [InitLoc EXCEPT !.task = Get(d, "task", None),
                                       !.round_num = Get(d, "round", None),
                                       !.brief = Get(d, "brief", None),
                                       !.checks = Get(d, "checks", List(<<>>)),
                                       !.attachments = Get(d, "attachments", List(<<>>))]]
                  /\ resp' = [resp EXCEPT ![r] = InitResp]
  /\ served' = served + 1
  /\ UNCHANGED <<SECRET_KEY, env, threads, quota, gh, faultsLeft>>

CompletionsNow ==
  IF env.completionFails THEN Completions
  ELSE {c \in Completions : ~CompletionFails(c)}

\* Lines 76-79: generate_app_code, with the one completion call it makes.
\* checks and attachments are not read again.
Generate(r) ==
  /\ pc[r] = "generate"
  /\ \E llm \in CompletionsNow :
       LET g == generate_app_code(loc[r].brief, loc[r].attachments, loc[r].checks, llm)
       IN /\ log' = [log EXCEPT ![r].gen = @ + 1,
                                ![r].llm = @ + (IF g.called THEN 1 ELSE 0),
                                ![r].llmFailed = g.called /\ CompletionFails(llm),
                                ![r].genRaised = g.raised]
          /\ IF g.raised
             THEN Return(r, 500, "none", "exception")
             ELSE /\ pc' = [pc EXCEPT ![r] = "get_user"]
                  /\ loc' = [loc EXCEPT ![r].app_code = g.code,
                                        ![r].checks = None,
                                        ![r].attachments = None]
                  /\ UNCHANGED resp
  /\ UNCHANGED <<SECRET_KEY, env, threads, quota, served, gh, faultsLeft>>

\* -------------------------------------------------- create_and_deploy_repo
repo_name(r) == Fmt(loc[r].task)
Repo(r) == gh[repo_name(r)]

PublishSwallows(r) ==
  /\ pc' = [pc EXCEPT ![r] = "report"]
  /\ UNCHANGED <<loc, resp>>
  /\ log' = [log EXCEPT ![r].ghCalled = TRUE, ![r].ghRaised = TRUE,
                        ![r].pubRaised = TRUE]

\* An exception that leaves create_and_deploy_repo reaches the handler's
\* except block.
PublishRaises(r) ==
  /\ Return(r, 500, "none", "exception")
  /\ log' = [log EXCEPT ![r].ghCalled = TRUE, ![r].ghRaised = TRUE,
                        ![r].pubRaised = TRUE]

\* Line 238: g.get_user().
GetUser(r) ==
  /\ pc[r] = "get_user"
  /\ \E fault \in FaultChoices :
       /\ Spend(fault)
       /\ IF fault
          THEN /\ Return(r, 500, "none", "exception")
               /\ log' = [log EXCEPT ![r].pub = @ + 1, ![r].ghCalled = TRUE,
                                     ![r].ghRaised = TRUE, ![r].pubRaised = TRUE]
          ELSE /\ pc' = [pc EXCEPT ![r] = "get_repo"]
               /\ log' = [log EXCEPT ![r].pub = @ + 1, ![r].ghCalled = TRUE]
               /\ UNCHANGED <<loc, resp>>
  /\ UNCHANGED <<SECRET_KEY, env, threads, quota, served, gh>>

\* Lines 241-244: user.get_repo(repo_name); any exception means "create it".
GetRepo(r) ==
  /\ pc[r] = "get_repo"
  /\ \E fault \in FaultChoices :
       LET found == ~fault /\ Repo(r).exists
       IN /\ Spend(fault)
          /\ pc' = [pc EXCEPT ![r] = IF found THEN "get_index" ELSE "create_repo"]
          /\ log' = [log EXCEPT ![r].ghRaised = @ \/ ~found]
  /\ UNCHANGED <<SECRET_KEY, env, threads, quota, served, loc, resp, gh>>

\* Lines 246-251: user.create_repo; the platform refuses a name that exists.
CreateRepo(r) ==
  /\ pc[r] = "create_repo"
  /\ \E fault \in FaultChoices :
       LET ok == ~fault /\ ~Repo(r).exists
       IN /\ Spend(fault)
          /\ IF ok
             THEN /\ gh' = [gh EXCEPT ![repo_name(r)].exists = TRUE]
                  /\ pc' = [pc EXCEPT ![r] = "get_index"]
                  /\ UNCHANGED <<loc, resp, log>>
             ELSE /\ PublishRaises(r)
                  /\ UNCHANGED gh
  /\ UNCHANGED <<SECRET_KEY, env, threads, quota, served>>

\* The sha the platform holds for the path right now.
ShaCurrent(r, path) ==
  IF HasFile(Repo(r), path) THEN Sha(FileAt(Repo(r), path).content) ELSE NoSha

ShaReadAgain(r, path) == ShaCurrent(r, path)

\* repo.get_contents(path) inside a try: the sha when the read succeeds,
\* otherwise the except branch.
GetContents(r, path, here, found, missing) ==
  /\ pc[r] = here
  /\ \E fault \in FaultChoices :
       LET ok == ~fault /\ HasFile(Repo(r), path)
       IN /\ Spend(fault)
          /\ pc' = [pc EXCEPT ![r] = IF ok THEN found ELSE missing]
          /\ loc' = [loc EXCEPT ![r].sha = IF ok THEN ShaCurrent(r, path) ELSE NoSha,
                                ![r].seen = ShaCurrent(r, path)]
          /\ log' = [log EXCEPT ![r].ghRaised = @ \/ ~ok]
  /\ UNCHANGED <<SECRET_KEY, env, threads, quota, served, resp, gh>>

\* The sha argument of update_file: contents.sha, read by get_contents.
ShaRead(r, path) == loc[r].sha

\* repo.update_file(path, message, content, contents.sha) inside the same try:
\* a refusal lands in the except branch, which calls create_file.
UpdateFile(r, path, content, here, next, except) ==
  /\ pc[r] = here
  /\ \E fault \in FaultChoices :
       LET ok == ~fault /\ UpdateAccepted(Repo(r), path, ShaRead(r, path))
       IN /\ Spend(fault)
          /\ pc' = [pc EXCEPT ![r] = IF ok THEN next ELSE except]
          /\ gh' = IF ok
                   THEN [gh EXCEPT ![repo_name(r)] = Written(Repo(r), path, content, r)]
                   ELSE gh
          /\ log' = [log EXCEPT
               ![r].ghRaised = @ \/ ~ok,
               ![r].wrote = IF ok THEN @ \cup {path} ELSE @,
               ![r].replaced = @ \/ (ok /\ path = IndexPath
                                        /\ FileAt(Repo(r), path).content # content),
               ![r].stale = IF ShaCurrent(r, path) # loc[r].seen
                            THEN @ \cup {path} ELSE @]
  /\ UNCHANGED <<SECRET_KEY, env, threads, quota, served, loc, resp>>

\* repo.create_file(path, message, content): outside any try, so a refusal
\* (the path exists) or a failure leaves create_and_deploy_repo.
CreateFile(r, path, content, here, next) ==
  /\ pc[r] = here
  /\ \E fault \in FaultChoices :
       LET ok == ~fault /\ CreateAccepted(Repo(r), path)
       IN /\ Spend(fault)
          /\ IF ok
             THEN /\ gh' = [gh EXCEPT ![repo_name(r)] = Written(Repo(r), path, content, r)]
                  /\ pc' = [pc EXCEPT ![r] = next]
                  /\ log' = [log EXCEPT ![r].wrote = @ \cup {path}]
                  /\ UNCHANGED <<loc, resp>>
             ELSE /\ Return(r, 500, "none", "exception")
                  /\ log' = [log EXCEPT
                       ![r].ghRaised = TRUE, ![r].pubRaised = TRUE,
                       ![r].createOnExisting = @ \/ HasFile(Repo(r), path),
                       ![r].stale = IF ShaCurrent(r, path) # loc[r].seen
                                    THEN @ \cup {path} ELSE @]
                  /\ UNCHANGED gh
  /\ UNCHANGED <<SECRET_KEY, env, threads, quota, served>>

IndexAsLicense(r) ==
  GetContents(r, IndexPath, "get_index", "get_readme", "create_index")

\* Lines 255-264: index.html.
GetIndex(r) == GetContents(r, IndexPath, "get_index", "update_index", "create_index")

UpdateIndex(r) ==
  UpdateFile(r, IndexPath, loc[r].app_code, "update_index", "get_readme", "create_index")

CreateIndex(r) == CreateFile(r, IndexPath, loc[r].app_code, "create_index", "get_readme")

\* Lines 267-272: README.md.
readme_content(r) == generate_readme(loc[r].brief, loc[r].round_num)

GetReadme(r) == GetContents(r, ReadmePath, "get_readme", "update_readme", "create_readme")

UpdateReadme(r) ==
  UpdateFile(r, ReadmePath, readme_content(r), "update_readme", "get_license", "create_readme")

CreateReadme(r) == CreateFile(r, ReadmePath, readme_content(r), "create_readme", "get_license")

\* Lines 297-300: LICENSE is looked up and created when the lookup fails,
\* never updated.
GetLicense(r) == GetContents(r, LicensePath, "get_license", "pages", "create_license")

CreateLicense(r) == CreateFile(r, LicensePath, LicenseText, "create_license", "pages")

\* Lines 303-306: enabling Pages; every exception is swallowed.
EnablePages(r) ==
  /\ pc[r] = "pages"
  /\ \E raised \in BOOLEAN :
       /\ Repo(r).pages => raised
       /\ gh' = [gh EXCEPT ![repo_name(r)].pages = @ \/ ~raised]
       /\ log' = [log EXCEPT ![r].ghRaised = @ \/ raised]
  /\ pc' = [pc EXCEPT ![r] = "get_commits"]
  /\ UNCHANGED <<SECRET_KEY, env, threads, quota, served, loc, resp, faultsLeft>>

GITHUB_USERNAME == <<"u", "s", "e", "r">>

\* Lines 309-318: the newest commit and the two URLs.
GetCommits(r) ==
  /\ pc[r] = "get_commits"
  /\ \E fault \in FaultChoices :
       /\ Spend(fault)
       /\ IF fault \/ Repo(r).commits = 0
          THEN PublishRaises(r)
          ELSE /\ pc' = [pc EXCEPT ![r] = "report"]
               /\ loc' = [loc EXCEPT ![r].result =
                    [repo_url |-> <<"https://github.com/">> \o GITHUB_USERNAME
                                  \o <<"/">> \o repo_name(r),
                     commit_sha |-> Repo(r).commits,
                     pages_url |-> <<"https://">> \o GITHUB_USERNAME
                                   \o <<".github.io/">> \o repo_name(r) \o <<"/">>]]
               /\ log' = [log EXCEPT ![r].pubReturned = TRUE]
               /\ UNCHANGED resp
  /\ UNCHANGED <<SECRET_KEY, env, threads, quota, served, gh>>

\* ---------------------------------------------------- report_to_evaluation
PostFailures == {"other status", "exception"}

\* What the callback endpoint answers to the attempts, were all of them made:
\* it fails the first k in one way and answers 200 from then on.
Answers(n) ==
  { [i \in 1..n |-> IF i <= k THEN f ELSE "200"] : k \in 0..n, f \in PostFailures }

\* The first attempt the endpoint answers with 200, 0 when it never does.
FirstOk(answers) ==
  IF \E i \in DOMAIN answers : answers[i] = "200"
  THEN CHOOSE i \in DOMAIN answers :
         answers[i] = "200" /\ \A j \in 1..(i - 1) : answers[j] # "200"
  ELSE 0

delaysFlat == <<Num(1), Num(2), Num(4), Num(4)>>

\* Line 367.
delays == <<Num(1), Num(2), Num(4), Num(8)>>

FourAttempts == delays

\* Line 368: delays + [None], one entry per attempt.
Schedule == delays \o <<None>>

\* Lines 368-389: the loop from attempt i on, for the answers the endpoint
\* gives; acc collects the POSTs made and the sleeps taken.
RECURSIVE ReportLoop(_, _, _)
ReportLoop(answers, i, acc) ==
  IF i > Len(Schedule)
  THEN [success |-> FALSE, posts |-> acc.posts, slept |-> acc.slept]
  ELSE IF answers[i] = "200"
  THEN [success |-> TRUE, posts |-> acc.posts + 1, slept |-> acc.slept]
  ELSE ReportLoop(answers, i + 1,
         [posts |-> acc.posts + 1,
          slept |-> IF Schedule[i].t = "num"
                    THEN Append(acc.slept, Schedule[i].v) ELSE acc.slept])

report_to_evaluation(answers) == ReportLoop(answers, 1, [posts |-> 0, slept |-> <<>>])

AnswersNow(n) ==
  IF env.endpointFails THEN Answers(n) ELSE {[i \in 1..n |-> "200"]}

\* Lines 91-103: report, then answer 200 whatever the report's result.
Report(r) ==
  /\ pc[r] = "report"
  /\ \E answers \in AnswersNow(Len(Schedule)) :
       LET rep == report_to_evaluation(answers)
       IN /\ log' = [log EXCEPT ![r].posts = rep.posts, ![r].slept = rep.slept,
                                ![r].firstOk = FirstOk(answers),
                                ![r].postedEarly = ~log[r].pubReturned]
          /\ Return(r, 200, IF rep.success THEN "true" ELSE "false", "none")
  /\ UNCHANGED <<SECRET_KEY, env, threads, quota, served, gh, faultsLeft>>

\* ------------------------------------------------------------------- Next
Step(r) ==
  \/ Receive(r)
  \/ Generate(r)
  \/ GetUser(r)
  \/ GetRepo(r)
  \/ CreateRepo(r)
  \/ GetIndex(r)
  \/ UpdateIndex(r)
  \/ CreateIndex(r)
  \/ GetReadme(r)
  \/ UpdateReadme(r)
  \/ CreateReadme(r)
  \/ GetLicense(r)
  \/ CreateLicense(r)
  \/ EnablePages(r)
  \/ GetCommits(r)
  \/ Report(r)

Next == \E r \in Threads : Step(r)

\* Requests served one after the other, with transient platform failures.
Spec == Init /\ [][Next]_vars

\* Requests served two at a time.
SpecRace == InitRace /\ [][Next]_vars

TypeOK ==
  /\ faultsLeft \in 0..(MaxFaults + RaceFaults)
  /\ served \in 0..quota
  /\ \A r \in Threads : resp[r].code \in {0, 200, 400, 403, 500}

\* ================================================================= claims
Done(r) == pc[r] = "done"

RECURSIVE Sum(_)
Sum(seq) == IF seq = <<>> THEN 0 ELSE Head(seq) + Sum(Tail(seq))

NoSideEffects(r) ==
  /\ log[r].gen = 0 /\ log[r].llm = 0
  /\ log[r].pub = 0 /\ ~log[r].ghCalled /\ log[r].wrote = {}
  /\ log[r].posts = 0

\* C1: a request whose secret field differs from SECRET_KEY is answered 403
\* and has made no completion call, no repository call and no callback POST.
C1_MismatchIs403 ==
  \A r \in Threads :
    Done(r) /\ log[r].secretField = "differs" =>
      resp[r].code = 403 /\ NoSideEffects(r)

C1_Witness ==
  \E r \in Threads :
    Done(r) /\ log[r].secretField = "differs" /\ resp[r].code = 403

\* C2: every request gets one of 400, 403, 500, 200, the 200 carrying the
\* reported flag; a body that is absent or is not JSON is answered 400,
\* never 500.
C2_AbsentOrUnparseableIs400 ==
  \A r \in Threads :
    Done(r) =>
      /\ resp[r].code \in {200, 400, 403, 500}
      /\ resp[r].code = 200 <=> resp[r].reported \in {"true", "false"}
      /\ log[r].kind \in {"absent", "unparseable"} => resp[r].code = 400

\* C3 as stated: generate_app_code never raises for a request that passed the
\* secret check.
C3_NeverRaises ==
  \A r \in Threads : log[r].gen = 1 => ~log[r].genRaised

\* C3, amended: for a request that passed the secret check and has well-formed
\* fields, generate_app_code does not raise, and when the completion call
\* fails the artifact is the fallback document: it is not empty, opens with
\* the template's first piece and contains the brief verbatim.
C3_WellFormedNeverRaises ==
  \A r \in Threads :
    log[r].gen = 1 /\ log[r].wellFormed =>
      /\ ~log[r].genRaised
      /\ log[r].llmFailed /\ pc[r] = "get_user" =>
           /\ loc[r].app_code # <<>>
           /\ Head(loc[r].app_code) = Head(Template(<<>>, FALSE, List(<<>>)))
           /\ IsSubstring(loc[r].brief.v, loc[r].app_code)

C3_Witness ==
  \E r \in Threads :
    /\ pc[r] = "get_user" /\ log[r].wellFormed /\ log[r].llmFailed
    /\ loc[r].brief.v # Lower(loc[r].brief.v)

IndexFiles(repo) == {f \in repo.files : f.path = IndexPath}

\* C4: when an invocation of create_and_deploy_repo has returned, the
\* repository holds exactly one index.html and its content is that
\* invocation's artifact, also when an earlier invocation left other content
\* there; LICENSE is written at most once and keeps the MIT text.
C4_PublishIdempotent ==
  /\ \A n \in RepoNames :
       /\ gh[n].licenseWrites <= 1
       /\ Cardinality(IndexFiles(gh[n])) <= 1
       /\ HasFile(gh[n], LicensePath) =>
            FileAt(gh[n], LicensePath).content = LicenseText
  /\ \A r \in Threads :
       pc[r] = "report" =>
         /\ Cardinality(IndexFiles(Repo(r))) = 1
         /\ FileAt(Repo(r), IndexPath).content = loc[r].app_code
         /\ HasFile(Repo(r), LicensePath)

C4_Witness ==
  \E r \in Threads :
    /\ pc[r] = "report" /\ served = 2 /\ log[r].replaced
    /\ IndexPath \in log[r].wrote /\ LicensePath \notin log[r].wrote
    /\ Repo(r).licenseWrites = 1

ExpectedSleeps == <<1, 2, 4, 8>>

\* C5: at most five POSTs; the sleeps are 1, 2, 4, 8 after the failed attempts
\* one to four and none after the fifth; the loop stops at the first 200 and
\* reports success; four failures then a 200 give success after 15 seconds,
\* and the total never exceeds 15.
C5_RetrySchedule ==
  \A r \in Threads :
    Done(r) /\ log[r].firstOk >= 0 =>
      /\ log[r].posts \in 1..5
      /\ Sum(log[r].slept) <= 15
      /\ log[r].firstOk > 0 =>
           /\ log[r].posts = log[r].firstOk
           /\ log[r].slept = SubSeq(ExpectedSleeps, 1, log[r].firstOk - 1)
           /\ resp[r].reported = "true"
      /\ log[r].firstOk = 0 => log[r].slept = ExpectedSleeps
      /\ log[r].firstOk = 5 => Sum(log[r].slept) = 15

C5_Witness ==
  \E r \in Threads :
    Done(r) /\ log[r].firstOk = 5 /\ resp[r].reported = "true"
            /\ Sum(log[r].slept) = 15

\* C6: when no attempt is answered 200, exactly five POSTs are made, nothing
\* is raised, and the response is 200 with reported false.
C6_GivesUpAfterFive ==
  \A r \in Threads :
    Done(r) /\ log[r].firstOk = 0 =>
      /\ log[r].posts = 5
      /\ resp[r] = [code |-> 200, reported |-> "false", error |-> "none"]

C6_Witness ==
  \E r \in Threads :
    Done(r) /\ log[r].firstOk = 0 /\ log[r].posts = 5 /\ resp[r].reported = "false"

\* The order of the steps within one request.
C7_Order(r) ==
  /\ log[r].gen <= 1 /\ log[r].llm <= log[r].gen /\ log[r].pub <= 1
  /\ log[r].gen = 1 => log[r].kind = "json"
  /\ log[r].pub = 1 => log[r].gen = 1 /\ ~log[r].genRaised
  /\ log[r].pubReturned => log[r].pub = 1
  /\ log[r].posts > 0 => log[r].pubReturned /\ ~log[r].postedEarly
  /\ pc[r] = "report" => log[r].pubReturned /\ loc[r].result # NoResult
  /\ Done(r) /\ resp[r].code = 200 =>
       log[r].gen = 1 /\ log[r].pub = 1 /\ log[r].posts > 0

\* C7 as stated: the steps run in order, once each, and whenever a
\* repository-hosting call of the publish step raises the response is 500 and
\* no callback POST is sent.
C7_AnyRaiseIs500 ==
  \A r \in Threads :
    /\ C7_Order(r)
    /\ Done(r) /\ log[r].ghRaised => resp[r].code = 500 /\ log[r].posts = 0

\* C7, amended: the steps run in order, once each, and whenever an exception
\* leaves create_and_deploy_repo (it is not one the function catches itself)
\* the response is 500 and no callback POST is sent.
C7_EscapedRaiseIs500 ==
  \A r \in Threads :
    /\ C7_Order(r)
    /\ log[r].pubRaised => ~log[r].pubReturned
    /\ Done(r) /\ log[r].pubRaised => resp[r].code = 500 /\ log[r].posts = 0

C7_Witness ==
  \E r \in Threads :
    /\ Done(r) /\ log[r].pubRaised /\ resp[r].code = 500
    /\ log[r].wrote # {}

Raced == {IndexPath, ReadmePath}

\* C8 as stated: each of the two concurrent requests' writes takes effect.
C8_EachWriteTakesEffect ==
  \A r \in Threads :
    Done(r) /\ log[r].pub = 1 => Raced \subseteq log[r].wrote

\* C8, amended: a file last written by a request still running holds that
\* request's content, and a request that looked a file up before another
\* request's write changed it has its own write to that path refused: it
\* writes nothing to it and answers 500.
C8_StaleWriterLoses ==
  \A r \in Threads :
    /\ \A p \in log[r].stale :
         /\ p \notin log[r].wrote
         /\ Done(r) => resp[r].code = 500
    /\ \A n \in RepoNames : \A f \in IndexFiles(gh[n]) :
         f.by = r /\ IndexPath \in log[r].wrote /\ ~Done(r) =>
           f.content = loc[r].app_code

\* The update of a request that read index.html before the other request
\* changed it has just been refused.
C8_Witness ==
  \E r \in Threads : \E q \in Threads \ {r} :
    /\ pc[r] = "create_index" /\ loc[r].sha # NoSha
    /\ IndexPath \in log[r].stale /\ IndexPath \notin log[r].wrote
    /\ IndexPath \in log[q].wrote
    /\ \E n \in RepoNames : \E f \in IndexFiles(gh[n]) : f.by = q

\* C9: a create call is issued for a path only when no file exists there,
\* also when a read or an update failed for another reason than absence.
C9_CreateOnlyIfAbsent ==
  \A r \in Threads : ~log[r].createOnExisting

\* C10: a request reaches generation only if its payload carries a secret
\* field that is a string equal to the configured secret.
C10_SecretRequired ==
  \A r \in Threads : log[r].gen = 1 => log[r].secretField = "equal"

====
